---- MODULE Spec2Model ----
(***************************************************************************)
(* A model of code_model_trainer.py: the CodeNGramModel class (training,   *)
(* sequence segmentation, serialisation, save, load) and the main() batch  *)
(* driver that loads a snapshot, trains on a list of files and saves.      *)
(*                                                                         *)
(* A Python string is modelled as the sequence of its characters, so a     *)
(* token is a tuple of one-character strings and two tokens are equal iff  *)
(* they are equal character by character.                                  *)
(***************************************************************************)
EXTENDS Integers, Sequences, FiniteSets, TLC

VARIABLES
    n,                \* self.n
    version,          \* self.version
    file_extensions,  \* self.file_extensions (a set)
    total_patterns,   \* self.total_patterns
    ngrams,           \* self.ngrams: ext -> context -> next token -> count
    disk,             \* the snapshot files: path -> NoFile or a written file
    last,             \* the last call made and how it ended
    saves,            \* the number of save calls made on the object
    pc,               \* main(): the position of the running invocation
    args,             \* main(): the parsed command line of the invocation
    all_files,        \* main(): the files found by glob
    idx,              \* main(): the index of the next file to train on
    seen,             \* main(): the paths train_on_file was called with
    runs,             \* the number of invocations of main() started
    prev,             \* the arguments and saved counts of the previous run
    seg               \* the segmenter's input and output, for SpecSeg

model_vars == <<n, version, file_extensions, total_patterns, ngrams>>
main_vars == <<pc, args, all_files, idx, seen, runs, prev>>
vars == <<n, version, file_extensions, total_patterns, ngrams, disk, last, saves,
          pc, args, all_files, idx, seen, runs, prev, seg>>

----------------------------------------------------------------------------
(* Bounds of the model. *)

\* train_on_file is not called once total_patterns has reached this value
MaxPatterns == 3
\* the number of invocations of main() in a behaviour of SpecMain
MaxRuns == 2
\* the longest token list given to the segmenter in SpecSeg
MaxLen == 4
\* the number of save calls in a behaviour of Spec
MaxSaves == 1

----------------------------------------------------------------------------
(* Tokens: character sequences. *)

TokX == <<"x">>
TokSemi == <<";">>
TokColon == <<":">>
TokBrace == <<"{">>
TokReturn == <<"r", "e", "t", "u", "r", "n">>
\* the string literal "a,b" as the tokenizers' ".*?" class yields it, quotes included
TokStr == <<"\"", "a", ",", "b", "\"">>
\* the character literal '\' (quote, backslash, quote)
TokChr == <<"'", "\\", "'">>

Tokens == {TokX, TokSemi, TokColon, TokBrace, TokReturn, TokStr, TokChr}

\* the control-terminator set of _extract_sequences
ControlEnders == {TokReturn, <<"b", "r", "e", "a", "k">>,
                  <<"c", "o", "n", "t", "i", "n", "u", "e">>,
                  <<"p", "a", "s", "s">>}

\* language_specific_enders.get(ext, [';'])
Enders(ext) ==
    CASE ext = ".cs" -> {TokSemi, TokBrace, <<"}">>}
      [] ext = ".js" -> {TokSemi, TokBrace, <<"}">>}
      [] ext = ".ts" -> {TokSemi, TokBrace, <<"}">>}
      [] ext = ".py" -> {TokColon}
      [] OTHER -> {TokSemi}

----------------------------------------------------------------------------
(* _extract_sequences: one pass over the tokens with an accumulator. *)

\* The loop body for tokens[i..]: sequences so far, current accumulator.
RECURSIVE ExtractLoop(_, _, _, _, _)
ExtractLoop(tokens, i, enders, sequences, current_sequence) ==
    IF i > Len(tokens)
    THEN IF current_sequence # <<>>
         THEN Append(sequences, current_sequence)
         ELSE sequences
    ELSE LET token == tokens[i]
             cur == Append(current_sequence, token)
         IN IF token \in enders
            THEN IF cur # <<>>
                 THEN ExtractLoop(tokens, i + 1, enders, Append(sequences, cur), <<>>)
                 ELSE ExtractLoop(tokens, i + 1, enders, sequences, cur)
            ELSE IF token \in ControlEnders
                 THEN IF cur # <<>>
                      THEN ExtractLoop(tokens, i + 1, enders, Append(sequences, cur), <<>>)
                      ELSE ExtractLoop(tokens, i + 1, enders, sequences, cur)
                 ELSE ExtractLoop(tokens, i + 1, enders, sequences, cur)

\* a segmenter that drops the trailing, terminator-less accumulator
ExtractNoFlush(tokens, ext) ==
    LET all == ExtractLoop(tokens, 1, Enders(ext), <<>>, <<>>)
    IN IF all # <<>> /\ all[Len(all)][Len(all[Len(all)])] \notin (Enders(ext) \cup ControlEnders)
       THEN SubSeq(all, 1, Len(all) - 1)
       ELSE all

_extract_sequences(tokens, ext) ==
    ExtractLoop(tokens, 1, Enders(ext), <<>>, <<>>)

----------------------------------------------------------------------------
(* The source files of the corpus. A path is its root and its extension, as *)
(* os.path.splitext splits it.                                              *)

FileA == [root |-> "a", ext |-> ".py"]
FileB == [root |-> "b", ext |-> ".CS"]
FileC == [root |-> "c", ext |-> ".js"]
SourceFiles == {FileA, FileB, FileC}

\* open(filepath) succeeds
Readable(filepath) == filepath \in {FileA, FileB}

\* f.read(), as its lines; each line is given as the list of matches that
\* re.findall returns for the profile of the file's extension (the patterns
\* themselves are not modelled)
Content(filepath) ==
    CASE filepath = FileA -> << <<TokX, TokColon>>, <<>>, <<TokX, TokX, TokX>> >>
      [] filepath = FileB -> << <<TokReturn, TokStr, TokSemi>>,
                                <<TokChr, TokX, TokBrace, TokX>> >>
      [] OTHER -> <<>>

\* str.lower() on the extensions of the corpus
Lower(ext) == IF ext = ".CS" THEN ".cs" ELSE ext

\* _tokenize_code: blank lines are skipped, the lines' tokens are concatenated
RECURSIVE TokenizeLines(_, _, _)
TokenizeLines(lines, i, tokens) ==
    IF i > Len(lines) THEN tokens
    ELSE IF lines[i] = <<>>
         THEN TokenizeLines(lines, i + 1, tokens)
         ELSE TokenizeLines(lines, i + 1, tokens \o lines[i])

_tokenize_code(content, ext) == TokenizeLines(content, 1, <<>>)

----------------------------------------------------------------------------
(* The nested count table: dictionaries as functions with a finite domain.  *)

EmptyDict == <<>>

Get(d, k, default) == IF k \in DOMAIN d THEN d[k] ELSE default

Put(d, k, v) == [x \in DOMAIN d \cup {k} |-> IF x = k THEN v ELSE d[x]]

\* the count stored for a triple, 0 when a key is absent
Count(ng, ext, context, token) ==
    Get(Get(Get(ng, ext, EmptyDict), context, EmptyDict), token, 0)

\* self.ngrams[ext][context][next_token] += 1
Increment(ng, ext, context, next_token) ==
    LET contexts == Get(ng, ext, EmptyDict)
        counter == Get(contexts, context, EmptyDict)
    IN Put(ng, ext, Put(contexts, context,
                        Put(counter, next_token, Get(counter, next_token, 0) + 1)))

\* a window count that misses the last window
WindowCountShort(seq, nn) == Len(seq) - nn

\* the argument of range() in the window loop
WindowCount(seq, nn) == Len(seq) - nn + 1

\* tuple(seq[i:i + self.n - 1]), i counted from 0
Context(seq, i, nn) == SubSeq(seq, i + 1, i + nn - 1)

\* seq[i + self.n - 1], i counted from 0
NextToken(seq, i, nn) == seq[i + nn]

\* the window loop over one sequence, from window i on; acc = [ngrams, total]
RECURSIVE WindowLoop(_, _, _, _, _)
WindowLoop(acc, seq, ext, nn, i) ==
    IF i >= WindowCount(seq, nn) THEN acc
    ELSE WindowLoop([ngrams |-> Increment(acc.ngrams, ext, Context(seq, i, nn),
                                          NextToken(seq, i, nn)),
                     total |-> acc.total + 1],
                    seq, ext, nn, i + 1)

\* the loop over the sequences of one file
RECURSIVE SequenceLoop(_, _, _, _, _)
SequenceLoop(acc, sequences, ext, nn, k) ==
    IF k > Len(sequences) THEN acc
    ELSE SequenceLoop(IF Len(sequences[k]) >= nn
                      THEN WindowLoop(acc, sequences[k], ext, nn, 0)
                      ELSE acc,
                      sequences, ext, nn, k + 1)

\* a train_on_file that records the extension before opening the file
train_on_file_ext_first(filepath) ==
    LET ext == Lower(filepath.ext)
        acc == SequenceLoop([ngrams |-> ngrams, total |-> total_patterns],
                            _extract_sequences(_tokenize_code(Content(filepath), ext), ext),
                            ext, n, 1)
    IN /\ file_extensions' = file_extensions \cup {ext}
       /\ ngrams' = IF Readable(filepath) THEN acc.ngrams ELSE ngrams
       /\ total_patterns' = IF Readable(filepath) THEN acc.total ELSE total_patterns
       /\ UNCHANGED <<n, version>>

\* a train_on_file that starts every file from an empty table
train_on_file_reset(filepath) ==
    IF ~Readable(filepath)
    THEN UNCHANGED model_vars
    ELSE LET ext == Lower(filepath.ext)
             acc == SequenceLoop([ngrams |-> EmptyDict, total |-> total_patterns],
                                 _extract_sequences(_tokenize_code(Content(filepath), ext), ext),
                                 ext, n, 1)
         IN /\ file_extensions' = file_extensions \cup {ext}
            /\ ngrams' = acc.ngrams
            /\ total_patterns' = acc.total
            /\ UNCHANGED <<n, version>>

\* train_on_file: the effect on the model; an exception of open() is caught
\* and printed, nothing else happens
train_on_file(filepath) ==
    IF ~Readable(filepath)
    THEN UNCHANGED model_vars
    ELSE LET ext == Lower(filepath.ext)
             tokens == _tokenize_code(Content(filepath), ext)
             sequences == _extract_sequences(tokens, ext)
             acc == SequenceLoop([ngrams |-> ngrams, total |-> total_patterns],
                                 sequences, ext, n, 1)
         IN /\ file_extensions' = file_extensions \cup {ext}
            /\ ngrams' = acc.ngrams
            /\ total_patterns' = acc.total
            /\ UNCHANGED <<n, version>>

----------------------------------------------------------------------------
(* json.dumps(list(context)) and json.loads(context_key), on characters.    *)

\* the escaping of one character inside a JSON string
JsonEscapeChar(c) ==
    IF c = "\"" THEN <<"\\", "\"">>
    ELSE IF c = "\\" THEN <<"\\", "\\">>
    ELSE <<c>>

RECURSIVE JsonEscape(_, _)
JsonEscape(chars, i) ==
    IF i > Len(chars) THEN <<>>
    ELSE JsonEscapeChar(chars[i]) \o JsonEscape(chars, i + 1)

\* one string of the array: quote, escaped characters, quote
JsonString(token) == <<"\"">> \o JsonEscape(token, 1) \o <<"\"">>

\* the items of the array from the i-th on, separated by ", "
RECURSIVE JsonItems(_, _)
JsonItems(context, i) ==
    IF i > Len(context) THEN <<>>
    ELSE (IF i > 1 THEN <<",", " ">> ELSE <<>>)
         \o JsonString(context[i]) \o JsonItems(context, i + 1)

\* json.dumps(list(context))
json_dumps(context) == <<"[">> \o JsonItems(context, 1) \o <<"]">>

\* scan a JSON string from position p (after its opening quote):
\* [chars: the decoded characters, next: the position after the closing quote]
RECURSIVE ScanString(_, _, _)
ScanString(text, p, acc) ==
    IF p > Len(text) THEN [chars |-> acc, next |-> p]
    ELSE IF text[p] = "\"" THEN [chars |-> acc, next |-> p + 1]
    ELSE IF text[p] = "\\" /\ p < Len(text)
         THEN ScanString(text, p + 2, Append(acc, text[p + 1]))
         ELSE ScanString(text, p + 1, Append(acc, text[p]))

\* scan the array's items from position p on
RECURSIVE ScanArray(_, _, _)
ScanArray(text, p, items) ==
    IF p > Len(text) \/ text[p] = "]" THEN items
    ELSE IF text[p] = "\""
         THEN LET s == ScanString(text, p + 1, <<>>)
              IN ScanArray(text, s.next, Append(items, s.chars))
         ELSE ScanArray(text, p + 1, items)

\* tuple(json.loads(context_key))
json_loads(context_key) == ScanArray(context_key, 2, <<>>)

----------------------------------------------------------------------------
(* Snapshot paths and files. The model file of every run has one root; a    *)
(* path is the root and the number of ".gz" suffixes appended to it.        *)

ModelPath(k) == [root |-> "model", gz |-> k]
\* the paths a caller passes: model, model.gz
ArgPaths == {ModelPath(0), ModelPath(1)}
\* the paths a file can be written at: model, model.gz, model.gz.gz
DiskPaths == {ModelPath(0), ModelPath(1), ModelPath(2)}

\* filepath.endswith('.gz')
EndsWithGz(filepath) == filepath.gz > 0

\* filepath + '.gz'
AppendGz(filepath) == [filepath EXCEPT !.gz = @ + 1]

NoFile == [exists |-> FALSE]

\* the keys load reads, in the order it reads them
RequiredKeys == <<"version", "n", "file_extensions", "total_patterns", "ngrams">>

\* a list holding the elements of a set once each, in some order
SetToList(S) ==
    CHOOSE l \in [1..Cardinality(S) -> S] : {l[i] : i \in 1..Cardinality(S)} = S

\* to_serializable: contexts become JSON text keys, the extensions a list
to_serializable ==
    [version |-> version,
     n |-> n,
     ngrams |-> [ext \in DOMAIN ngrams |->
                   [context_key \in {json_dumps(c) : c \in DOMAIN ngrams[ext]} |->
                      ngrams[ext][CHOOSE c \in DOMAIN ngrams[ext] :
                                     json_dumps(c) = context_key]]],
     file_extensions |-> SetToList(file_extensions),
     total_patterns |-> total_patterns]

\* the path save writes
SavedPath(filepath, compress) == IF compress THEN AppendGz(filepath) ELSE filepath

\* save: the file written; the model is not changed
save(filepath, compress) ==
    disk' = [disk EXCEPT ![SavedPath(filepath, compress)] =
                [exists |-> TRUE, gzipped |-> compress, data |-> to_serializable]]

\* the object json.load returns for a snapshot that lacks one required key
Without(data, absent) == [k \in DOMAIN data \ {absent} |-> data[k]]

\* open / gzip.open / json.load raise: no file, a plain file read through
\* gzip, or a gzip file read as UTF-8 text
ReadRaises(filepath) ==
    \/ ~disk[filepath].exists
    \/ EndsWithGz(filepath) # disk[filepath].gzipped

\* the index in RequiredKeys of the first key the object lacks, 6 if none
FirstMissing(data) ==
    IF \E i \in 1..5 : RequiredKeys[i] \notin DOMAIN data
    THEN CHOOSE i \in 1..5 : /\ RequiredKeys[i] \notin DOMAIN data
                             /\ \A j \in 1..(i - 1) : RequiredKeys[j] \in DOMAIN data
    ELSE 6

\* the loop that rebuilds self.ngrams from data['ngrams']
RestoreNgrams(stored) ==
    [ext \in {e \in DOMAIN stored : DOMAIN stored[e] # {}} |->
       [context \in {json_loads(k) : k \in DOMAIN stored[ext]} |->
          stored[ext][CHOOSE k \in DOMAIN stored[ext] : json_loads(k) = context]]]

\* load ends without raising
LoadOk(filepath, absent) ==
    /\ ~ReadRaises(filepath)
    /\ FirstMissing(Without(disk[filepath].data, absent)) = 6

\* a load that keeps the n the model was constructed with
load_keep_n(filepath, absent) ==
    IF ReadRaises(filepath)
    THEN UNCHANGED model_vars
    ELSE LET data == Without(disk[filepath].data, absent)
             m == FirstMissing(data)
         IN /\ version' = IF m > 1 THEN data.version ELSE version
            /\ n' = n
            /\ file_extensions' = IF m > 3 THEN {data.file_extensions[i] :
                                        i \in DOMAIN data.file_extensions}
                                  ELSE file_extensions
            /\ total_patterns' = IF m > 4 THEN data.total_patterns ELSE total_patterns
            /\ ngrams' = IF m > 5 THEN RestoreNgrams(data.ngrams)
                         ELSE IF m = 5 THEN EmptyDict ELSE ngrams

\* load: the fields are assigned one after the other, so a missing key
\* raises KeyError after the assignments before it; self.ngrams is replaced
\* by an empty table before data['ngrams'] is read
load(filepath, absent) ==
    IF ReadRaises(filepath)
    THEN UNCHANGED model_vars
    ELSE LET data == Without(disk[filepath].data, absent)
             m == FirstMissing(data)
         IN /\ version' = IF m > 1 THEN data.version ELSE version
            /\ n' = IF m > 2 THEN data.n ELSE n
            /\ file_extensions' = IF m > 3 THEN {data.file_extensions[i] :
                                        i \in DOMAIN data.file_extensions}
                                  ELSE file_extensions
            /\ total_patterns' = IF m > 4 THEN data.total_patterns ELSE total_patterns
            /\ ngrams' = IF m > 5 THEN RestoreNgrams(data.ngrams)
                         ELSE IF m = 5 THEN EmptyDict ELSE ngrams

----------------------------------------------------------------------------
(* The calls on one CodeNGramModel object, in any order (Spec).             *)

\* the window sizes a model is constructed with (--n-gram)
NGramSizes == {2, 3}

Nowhere == [root |-> "none"]
NoSeg == [tokens |-> <<>>, ext |-> ".py", sequences |-> <<>>, done |-> FALSE]
NoArgs == [model |-> ModelPath(0), pattern |-> "none", n_gram |-> 2,
           no_compress |-> FALSE]
NoPrev == [valid |-> FALSE]

\* CodeNGramModel.__init__
__init__(nn) ==
    /\ n' = nn
    /\ ngrams' = EmptyDict
    /\ file_extensions' = {}
    /\ total_patterns' = 0
    /\ version' = "2.0"

\* the state after CodeNGramModel(n) with no snapshot on disk
InitModel ==
    /\ n \in NGramSizes
    /\ ngrams = EmptyDict
    /\ file_extensions = {}
    /\ total_patterns = 0
    /\ version = "2.0"
    /\ disk = [p \in DiskPaths |-> NoFile]
    /\ last = [op |-> "init", ok |-> TRUE, file |-> Nowhere, absent |-> "none"]
    /\ saves = 0

MainIdle ==
    /\ pc = "idle"
    /\ args = NoArgs
    /\ all_files = <<>>
    /\ idx = 1
    /\ seen = <<>>
    /\ runs = 0
    /\ prev = NoPrev

Init == InitModel /\ MainIdle /\ seg = NoSeg

Construct(nn) ==
    /\ __init__(nn)
    /\ last' = [op |-> "init", ok |-> TRUE, file |-> Nowhere, absent |-> "none"]
    /\ UNCHANGED <<disk, saves, main_vars, seg>>

TrainOnFile(filepath) ==
    /\ total_patterns < MaxPatterns
    /\ train_on_file(filepath)
    /\ last' = [op |-> "train", ok |-> Readable(filepath), file |-> filepath,
                absent |-> "none"]
    /\ UNCHANGED <<disk, saves, main_vars, seg>>

Save(filepath, compress) ==
    /\ saves < MaxSaves
    /\ saves' = saves + 1
    /\ save(filepath, compress)
    /\ last' = [op |-> "save", ok |-> TRUE, file |-> SavedPath(filepath, compress),
                absent |-> "none"]
    /\ UNCHANGED <<model_vars, main_vars, seg>>

\* load of a file as it is on disk
LoadSnapshot(filepath) ==
    /\ load(filepath, "none")
    /\ last' = [op |-> "load", ok |-> LoadOk(filepath, "none"), file |-> filepath,
                absent |-> "none", n_before |-> n]
    /\ UNCHANGED <<disk, saves, main_vars, seg>>

\* load of a readable file whose object lacks one required key
LoadMalformed(filepath, absent) ==
    /\ ~ReadRaises(filepath)
    /\ load(filepath, absent)
    /\ last' = [op |-> "load", ok |-> LoadOk(filepath, absent), file |-> filepath,
                absent |-> absent, n_before |-> n]
    /\ UNCHANGED <<disk, saves, main_vars, seg>>

NextSaved ==
    \/ \E nn \in NGramSizes : Construct(nn)
    \/ \E filepath \in SourceFiles : TrainOnFile(filepath)
    \/ \E filepath \in ArgPaths, compress \in BOOLEAN : Save(filepath, compress)
    \/ \E filepath \in DiskPaths : LoadSnapshot(filepath)

Next ==
    \/ NextSaved
    \/ \E filepath \in DiskPaths, i \in 1..5 : LoadMalformed(filepath, RequiredKeys[i])

\* any calls, the snapshots read possibly malformed
Spec == Init /\ [][Next]_vars

\* any calls, every snapshot read as save wrote it
SpecSaved == Init /\ [][NextSaved]_vars

----------------------------------------------------------------------------
(* _extract_sequences on every token list up to MaxLen (SpecSeg).           *)

SegTokens == {TokX, TokSemi, TokColon, TokBrace, TokReturn}
SegExts == {".cs", ".py", ".txt"}

TokenLists == UNION {[1..k -> SegTokens] : k \in 0..MaxLen}

InitSeg ==
    /\ InitModel /\ MainIdle
    /\ seg \in [tokens : TokenLists, ext : SegExts, sequences : {<<>>}, done : {FALSE}]

Segment ==
    /\ ~seg.done
    /\ seg' = [seg EXCEPT !.sequences = _extract_sequences(seg.tokens, seg.ext),
                          !.done = TRUE]
    /\ UNCHANGED <<model_vars, disk, last, saves, main_vars>>

NextSeg == Segment

SpecSeg == InitSeg /\ [][NextSeg]_vars

----------------------------------------------------------------------------
(* main(): invocations one after the other on the same disk (SpecMain).     *)

\* the values of --pattern; "none": neither --pattern nor --language given
Patterns == {"none", "*.py", "*"}

\* glob.glob(pattern, recursive=True) on the corpus, node_modules filtered out
Glob(pattern) ==
    CASE pattern = "*.py" -> <<FileA>>
      [] pattern = "*" -> <<FileA, FileC, FileB>>
      [] OTHER -> <<>>

ArgSets == [model : ArgPaths, pattern : Patterns, n_gram : NGramSizes,
            no_compress : BOOLEAN]

\* model_path: '.gz' is appended unless it is there or --no-compress is given
MainModelPath(a) ==
    IF ~EndsWithGz(a.model) /\ ~a.no_compress THEN AppendGz(a.model) ELSE a.model

\* the condition under which main tries to load
MainSnapshotExists(a) ==
    \/ disk[MainModelPath(a)].exists
    \/ (~a.no_compress /\ disk[a.model].exists)

\* no pattern: main prints the usage hint and returns
MainUsage(a) ==
    /\ pc = "idle" /\ runs < MaxRuns
    /\ a.pattern = "none"
    /\ runs' = runs + 1
    /\ last' = [op |-> "usage", ok |-> TRUE, file |-> Nowhere, absent |-> "none"]
    /\ UNCHANGED <<model_vars, disk, saves, pc, args, all_files, idx, seen, prev, seg>>

\* model = CodeNGramModel(n=args.n_gram)
MainStart(a) ==
    /\ pc = "idle" /\ runs < MaxRuns
    /\ a.pattern # "none"
    /\ __init__(a.n_gram)
    /\ args' = a
    /\ runs' = runs + 1
    /\ pc' = "load"
    /\ all_files' = <<>>
    /\ idx' = 1
    /\ seen' = <<>>
    /\ last' = [op |-> "init", ok |-> TRUE, file |-> Nowhere, absent |-> "none"]
    /\ UNCHANGED <<disk, saves, prev, seg>>

\* the load attempt (an exception is caught and printed), then the glob
MainLoad ==
    /\ pc = "load"
    /\ IF MainSnapshotExists(args)
       THEN \E absent \in {"none"} \cup
                 (IF ReadRaises(MainModelPath(args)) THEN {}
                  ELSE {RequiredKeys[i] : i \in 1..5}) :
               /\ load(MainModelPath(args), absent)
               /\ last' = [op |-> "load", ok |-> LoadOk(MainModelPath(args), absent),
                           file |-> MainModelPath(args), absent |-> absent,
                           n_before |-> n]
       ELSE /\ UNCHANGED model_vars
            /\ last' = [op |-> "noload", ok |-> TRUE, file |-> MainModelPath(args),
                        absent |-> "none"]
    /\ all_files' = Glob(args.pattern)
    /\ pc' = IF Glob(args.pattern) = <<>> THEN "save" ELSE "train"
    /\ UNCHANGED <<disk, saves, args, idx, seen, runs, prev, seg>>

\* one iteration of the loop over all_files
MainTrain ==
    /\ pc = "train"
    /\ train_on_file(all_files[idx])
    /\ seen' = Append(seen, all_files[idx])
    /\ idx' = idx + 1
    /\ pc' = IF idx = Len(all_files) THEN "save" ELSE "train"
    /\ last' = [op |-> "train", ok |-> Readable(all_files[idx]),
                file |-> all_files[idx], absent |-> "none"]
    /\ UNCHANGED <<disk, saves, args, all_files, runs, prev, seg>>

\* model.save(args.model, compress=not args.no_compress), then the statistics
\* loop, whose reads of model.ngrams[ext] create the missing entries
MainSave ==
    /\ pc = "save"
    /\ save(args.model, ~args.no_compress)
    /\ ngrams' = [ext \in DOMAIN ngrams \cup file_extensions |->
                    Get(ngrams, ext, EmptyDict)]
    /\ prev' = [valid |-> TRUE, args |-> args, ngrams |-> ngrams,
                total_patterns |-> total_patterns]
    /\ last' = [op |-> "save", ok |-> TRUE,
                file |-> SavedPath(args.model, ~args.no_compress), absent |-> "none"]
    /\ pc' = "idle"
    /\ UNCHANGED <<n, version, file_extensions, total_patterns, saves,
                   args, all_files, idx, seen, runs, seg>>

NextMain ==
    \/ \E a \in ArgSets : MainUsage(a)
    \/ \E a \in ArgSets : MainStart(a)
    \/ MainLoad
    \/ MainTrain
    \/ MainSave

SpecMain == Init /\ [][NextMain]_vars

----------------------------------------------------------------------------
(* Operators the properties are stated with.                                *)

\* the (extension, context, next token) triples a table stores
Triples(ng) ==
    UNION {UNION {{<<e, c, t>> : t \in DOMAIN ng[e][c]} : c \in DOMAIN ng[e]} :
           e \in DOMAIN ng}

RECURSIVE SumTriples(_, _)
SumTriples(ng, T) ==
    IF T = {} THEN 0
    ELSE LET x == CHOOSE x \in T : TRUE
         IN ng[x[1]][x[2]][x[3]] + SumTriples(ng, T \ {x})

\* the sum of every count a table stores
SumCounts(ng) == SumTriples(ng, Triples(ng))

\* two tables store the same count for every triple
SameCounts(ng1, ng2) ==
    \A x \in Triples(ng1) \cup Triples(ng2) :
        Count(ng1, x[1], x[2], x[3]) = Count(ng2, x[1], x[2], x[3])

\* no triple has a lower count in table ng2 than in table ng1
NoCountLower(ng1, ng2) ==
    \A x \in Triples(ng1) : Count(ng2, x[1], x[2], x[3]) >= ng1[x[1]][x[2]][x[3]]

\* the sequences the segmenter produces for a source file
SequencesOf(filepath) ==
    _extract_sequences(_tokenize_code(Content(filepath), Lower(filepath.ext)),
                       Lower(filepath.ext))

\* the sum over the sequences from the k-th on of max(0, length - nn + 1)
RECURSIVE ExpectedGain(_, _, _)
ExpectedGain(sequences, nn, k) ==
    IF k > Len(sequences) THEN 0
    ELSE (IF Len(sequences[k]) - nn + 1 > 0 THEN Len(sequences[k]) - nn + 1 ELSE 0)
         + ExpectedGain(sequences, nn, k + 1)

\* the concatenation of the sequences from the k-th on
RECURSIVE Concat(_, _)
Concat(sequences, k) ==
    IF k > Len(sequences) THEN <<>>
    ELSE sequences[k] \o Concat(sequences, k + 1)

\* the tokens that close a sequence of an extension
Terminators(ext) == Enders(ext) \cup ControlEnders

----------------------------------------------------------------------------
(* The claims.                                                              *)

\* C1: in every reachable state, loads that raise part-way included,
\* total_patterns equals the sum of all counts stored in ngrams.
C1_TotalIsSumOfCounts == total_patterns = SumCounts(ngrams)

\* C2: one train_on_file call on a readable file adds to total_patterns
\* exactly the sum over the file's sequences of max(0, length - n + 1).
C2_CountConservation ==
    [][(last'.op = "train" /\ last'.ok) =>
          total_patterns' = total_patterns + ExpectedGain(SequencesOf(last'.file), n, 1)]_vars

\* a readable file with a sequence shorter than n and one of at least n
\* tokens has been trained on
C2_Witness ==
    /\ last.op = "train" /\ last.ok
    /\ total_patterns > 0
    /\ \E k \in DOMAIN SequencesOf(last.file) : Len(SequencesOf(last.file)[k]) < n
    /\ \E k \in DOMAIN SequencesOf(last.file) : Len(SequencesOf(last.file)[k]) >= n

\* C3: saving a model (compressed or not) and loading the written file
\* succeeds and yields the saved counts, extensions, n and total_patterns.
\* (The class stores no vocabulary; file_extensions is its only set.)
C3_RoundTrip ==
    [][(last.op = "save" /\ last'.op = "load" /\ last'.file = last.file
          /\ last'.absent = "none") =>
          /\ last'.ok
          /\ SameCounts(ngrams, ngrams')
          /\ total_patterns' = total_patterns
          /\ file_extensions' = file_extensions
          /\ n' = n]_vars

\* C4, as claimed: no train_on_file, save or load call on a model lowers
\* the count of any triple.
C4_CountsNeverDecrease ==
    [][last'.op \in {"train", "save", "load"} => NoCountLower(ngrams, ngrams')]_vars

\* C4, amended: no train_on_file or save call lowers the count of any
\* triple (load replaces the table by the snapshot's).
C4_TrainAndSaveNeverDecrease ==
    [][last'.op \in {"train", "save"} => NoCountLower(ngrams, ngrams')]_vars

\* training has added counts on top of those of a snapshot on disk
C4_Witness ==
    /\ last.op = "train" /\ last.ok
    /\ \E x \in Triples(ngrams) : ngrams[x[1]][x[2]][x[3]] >= 2
    /\ \E p \in DiskPaths : /\ disk[p].exists
                            /\ disk[p].data.total_patterns > 0
                            /\ disk[p].data.total_patterns < total_patterns

\* C5: in main, loading a snapshot whose n differs from the requested
\* --n-gram raises and leaves the model's n at the requested value.
C5_MismatchRejected ==
    (/\ last.op = "load" /\ last.absent = "none"
     /\ ~ReadRaises(last.file)
     /\ disk[last.file].data.n # args.n_gram)
    => (~last.ok /\ n = args.n_gram)

\* C6: every context stored in ngrams has length n - 1 for the model's
\* current n, whatever snapshots written by save have been loaded.
C6_ContextLength ==
    \A e \in DOMAIN ngrams : \A c \in DOMAIN ngrams[e] : Len(c) = n - 1

\* a snapshot with another n than the model's has been loaded, with counts
C6_Witness ==
    /\ last.op = "load" /\ last.ok
    /\ last.n_before # n
    /\ ngrams # EmptyDict

\* C7: in main, train_on_file on an unreadable path leaves n, version,
\* file_extensions, total_patterns and ngrams as they were and the loop
\* goes on: when the loop ends train_on_file has been called on every file
\* of the list and every readable file's extension has been recorded.
C7_PerFileIsolation ==
    /\ [][(pc = "train" /\ ~Readable(all_files[idx])) =>
             (/\ UNCHANGED model_vars
              /\ pc' \in {"train", "save"}
              /\ idx' = idx + 1)]_vars
    /\ [](pc = "save" =>
             /\ seen = all_files
             /\ \A i \in DOMAIN all_files :
                    Readable(all_files[i]) => Lower(all_files[i].ext) \in file_extensions)

\* the loop ended after an unreadable file followed by a readable one
C7_Witness ==
    /\ pc = "save"
    /\ \E i \in DOMAIN seen : \E j \in DOMAIN seen :
          i < j /\ ~Readable(seen[i]) /\ Readable(seen[j])
    /\ ".cs" \in file_extensions

\* C8: the sequences are non-empty, concatenate to the input, hold a
\* terminator only as last element, and all but the last end with one; a
\* list without terminator gives one sequence, the whole list.
C8_Segmentation ==
    seg.done =>
      LET sequences == seg.sequences
          T == Terminators(seg.ext)
      IN /\ \A k \in DOMAIN sequences : sequences[k] # <<>>
         /\ Concat(sequences, 1) = seg.tokens
         /\ \A k \in DOMAIN sequences : \A i \in 1..(Len(sequences[k]) - 1) :
                sequences[k][i] \notin T
         /\ \A k \in 1..(Len(sequences) - 1) : sequences[k][Len(sequences[k])] \in T
         /\ ((seg.tokens # <<>> /\ \A i \in DOMAIN seg.tokens : seg.tokens[i] \notin T)
               => sequences = <<seg.tokens>>)

\* a list was cut into several sequences, the last one without terminator
C8_Witness ==
    /\ seg.done
    /\ Len(seg.sequences) >= 2
    /\ seg.sequences[Len(seg.sequences)][Len(seg.sequences[Len(seg.sequences)])]
          \notin Terminators(seg.ext)

\* C9: in main, a load that raises leaves the model as constructed: the
\* requested n, version 2.0, no extensions, no patterns, an empty table.
C9_FailedLoadLeavesFreshModel ==
    (last.op = "load" /\ ~last.ok) =>
       /\ n = args.n_gram
       /\ version = "2.0"
       /\ file_extensions = {}
       /\ total_patterns = 0
       /\ ngrams = EmptyDict

\* C10: a run with the arguments of the run before it loads the snapshot
\* that run saved and starts from its counts.
C10_NextRunLoadsSavedSnapshot ==
    (/\ last.op \in {"load", "noload"} /\ last.absent = "none"
     /\ prev.valid /\ prev.args = args)
    => (/\ last.op = "load" /\ last.ok
        /\ total_patterns = prev.total_patterns
        /\ SameCounts(ngrams, prev.ngrams))

====
